---- MODULE Spec2Model ----
(***************************************************************************)
(* async-session: the Session entity (async-session/src/session.rs), the   *)
(* in-memory store (memory-store/src/lib.rs) and the cookie store          *)
(* (cookie-store/src/lib.rs).                                              *)
(*                                                                         *)
(* Values.  Option<T> is a sequence of length 0 (None) or 1 (Some).        *)
(* Result<T, E> is <<"Ok", t>> or <<"Err", e>>.  A byte string is          *)
(*   <<"rand", n>>                 the n-th draw of the random generator   *)
(*   <<"blake3", b>>               the 32-byte digest of byte string b     *)
(*   <<"bincode", id, expiry, data>>  a serialized Session                 *)
(* and a String is <<"b64", b>> (the base64 text of byte string b) or      *)
(* <<"txt", n>> (a text that is not valid base64, such as "hello").        *)
(* blake3 is modelled as an ideal hash: deterministic and injective.  The  *)
(* random generator never repeats a draw (64 random bytes).                *)
(***************************************************************************)
EXTENDS Integers, Sequences, FiniteSets, TLC

\* ---- bounds of the model
MaxSeeds == 2
MaxTime == 2
MaxOps == 5
MaxSessionOps == 4
\* the caller's two session variables
Slots == {1, 2}
Keys == {"key", "user_id"}
Vals == {1, 2}
Ttls == {1}
Times == 0..MaxTime
Texts == {<<"txt", 1>>}

VARIABLES
    now,      \* the clock read by DateTime::now_utc()
    rng,      \* number of draws made from rand::thread_rng()
    sess,     \* the caller's session variables: Slots -> Option<Session>
    store,    \* MemoryStore's DashMap<String, Session>: id -> Session
    last,     \* the last call made and what it returned
    issued,   \* history: the cookie values store_session returned, with what was stored
    track,    \* history per caller variable: where its session came from
    taken,    \* history: the cookie values take_cookie_value has returned
    baseline, \* history per caller variable: the data when data_changed was last false by construction or reset
    rotations, \* history: <<old id, new id>> of each regenerate() of a session whose id was stored
    ops,      \* number of calls made
    pc,       \* concurrent callers: where each one is in its call on the MemoryStore
    req,      \* concurrent callers: the call each one is making
    res,      \* concurrent callers: what the last call of each one returned
    guard,    \* DashMap: the holder of each shard's write lock, 0 when free
    shard_of, \* DashMap: the shard each key hashes to (RandomState, fixed per map)
    scanned   \* history per concurrent caller: the entries its cleanup has seen so far

\* the state of the concurrent callers and of the DashMap's locks
cvars == <<pc, req, res, guard, shard_of, scanned>>

vars == <<now, rng, sess, store, last, issued, track, taken, baseline, rotations, ops, cvars>>

None == <<>>
Some(x) == <<x>>
IsSome(o) == Len(o) = 1
Unwrap(o) == o[1]
Ok(x) == <<"Ok", x>>
Err(e) == <<"Err", e>>
IsOk(r) == r[1] = "Ok"

EmptyData == [k \in {} |-> 0]

\* ---- base64 and blake3
BASE64_encode(bytes) == <<"b64", bytes>>

BASE64_decode(string) ==
    IF string[1] = "b64" THEN Ok(string[2]) ELSE Err("Base64")

blake3_hash(bytes) == <<"blake3", bytes>>

\* ---- session.rs
generate_cookie(draw) == BASE64_encode(<<"rand", draw>>)

id_from_cookie_value_unhashed(string) ==
    LET decoded == BASE64_decode(string)
    IN  IF IsOk(decoded) THEN Ok(BASE64_encode(decoded[2])) ELSE decoded

id_from_cookie_value(string) ==
    LET decoded == BASE64_decode(string)
    IN  IF IsOk(decoded)
        THEN Ok(BASE64_encode(blake3_hash(decoded[2])))
        ELSE decoded

new(draw) ==
    LET cookie_value == generate_cookie(draw)
    IN  [ id |-> id_from_cookie_value(cookie_value)[2],
          expiry |-> None,
          data |-> EmptyData,
          cookie_value |-> Some(cookie_value),
          data_changed |-> FALSE,
          destroy |-> FALSE ]

from_parts_drops_expiry(id, data, expiry) ==
    [ id |-> id, expiry |-> None, data |-> data,
      cookie_value |-> None, data_changed |-> FALSE, destroy |-> FALSE ]

from_parts(id, data, expiry) ==
    [ id |-> id, expiry |-> expiry, data |-> data,
      cookie_value |-> None, data_changed |-> FALSE, destroy |-> FALSE ]

destroy(s) == [s EXCEPT !.destroy = TRUE]

is_destroyed(s) == s.destroy

get_value(s, key) == IF key \in DOMAIN s.data THEN Some(s.data[key]) ELSE None

HashMap_insert(data, key, value) ==
    [k \in DOMAIN data \cup {key} |-> IF k = key THEN value ELSE data[k]]

HashMap_remove(data, key) == [k \in DOMAIN data \ {key} |-> data[k]]

insert_value_always_dirty(s, key, value) ==
    [s EXCEPT !.data = HashMap_insert(s.data, key, value), !.data_changed = TRUE]

insert_value(s, key, value) ==
    IF get_value(s, key) # Some(value)
    THEN [s EXCEPT !.data = HashMap_insert(s.data, key, value), !.data_changed = TRUE]
    ELSE s

remove_silent(s, key) == [s EXCEPT !.data = HashMap_remove(s.data, key)]

remove_always_dirty(s, key) ==
    [s EXCEPT !.data = HashMap_remove(s.data, key), !.data_changed = TRUE]

remove(s, key) ==
    IF key \in DOMAIN s.data
    THEN [s EXCEPT !.data = HashMap_remove(s.data, key), !.data_changed = TRUE]
    ELSE s

\* returns the session and the value taken
take_value(s, key) ==
    LET took == get_value(s, key)
    IN  [ session |-> IF IsSome(took)
                      THEN [s EXCEPT !.data = HashMap_remove(s.data, key),
                                     !.data_changed = TRUE]
                      ELSE s,
          ret |-> took ]

regenerate_keeps_id(s, draw) ==
    [s EXCEPT !.cookie_value = Some(generate_cookie(draw))]

regenerate_no_cookie(s, draw) ==
    [s EXCEPT !.id = id_from_cookie_value(generate_cookie(draw))[2]]

regenerate(s, draw) ==
    LET cookie_value == generate_cookie(draw)
    IN  [s EXCEPT !.id = id_from_cookie_value(cookie_value)[2],
                  !.cookie_value = Some(cookie_value)]

set_cookie_value(s, cookie_value) == [s EXCEPT !.cookie_value = Some(cookie_value)]

set_expiry_marks_changed(s, expiry) ==
    [s EXCEPT !.expiry = Some(expiry), !.data_changed = TRUE]

set_expiry(s, expiry) == [s EXCEPT !.expiry = Some(expiry)]

expire_in(s, ttl, clock) == [s EXCEPT !.expiry = Some(clock + ttl)]

is_expired_when_unset(s, clock) ==
    IF IsSome(s.expiry) THEN Unwrap(s.expiry) < clock ELSE TRUE

is_expired_inclusive(s, clock) ==
    IF IsSome(s.expiry) THEN Unwrap(s.expiry) <= clock ELSE FALSE

is_expired(s, clock) ==
    IF IsSome(s.expiry) THEN Unwrap(s.expiry) < clock ELSE FALSE

validate(s, clock) == IF is_expired(s, clock) THEN None ELSE Some(s)

data_changed(s) == s.data_changed

reset_data_changed(s) == [s EXCEPT !.data_changed = FALSE]

take_cookie_value_keeps(s) == [ session |-> s, ret |-> s.cookie_value ]

\* returns the session and the value taken
take_cookie_value(s) ==
    [ session |-> [s EXCEPT !.cookie_value = None], ret |-> s.cookie_value ]

into_cookie_value(s) == take_cookie_value(s).ret

clone(s) == s

\* ---- serde: #[derive(Serialize, Deserialize)] with #[serde(skip)] fields
bincode_json_to_vec_no_expiry(s) == <<"bincode", s.id, None, s.data>>

bincode_json_to_vec(s) == <<"bincode", s.id, s.expiry, s.data>>

bincode_json_from_slice_marks_changed(bytes) ==
    IF bytes[1] = "bincode"
    THEN Ok([ id |-> bytes[2], expiry |-> bytes[3], data |-> bytes[4],
              cookie_value |-> None, data_changed |-> bytes[4] # EmptyData,
              destroy |-> FALSE ])
    ELSE Err("Bincode")

bincode_json_from_slice(bytes) ==
    IF bytes[1] = "bincode"
    THEN Ok([ id |-> bytes[2], expiry |-> bytes[3], data |-> bytes[4],
              cookie_value |-> None, data_changed |-> FALSE, destroy |-> FALSE ])
    ELSE Err("Bincode")

\* ---- memory-store/src/lib.rs; m is the DashMap, each operation returns the
\* ---- map it leaves, what it returns and (store_session) the caller's session
DashMap_insert(m, key, value) ==
    [k \in DOMAIN m \cup {key} |-> IF k = key THEN value ELSE m[k]]

DashMap_remove(m, key) == [k \in DOMAIN m \ {key} |-> m[k]]

EmptyMap == [k \in {} |-> 0]

MemoryStore_load_session_no_check(m, cookie_value, clock) ==
    LET id == id_from_cookie_value(cookie_value)
    IN  IF ~IsOk(id) THEN [store |-> m, ret |-> id]
        ELSE IF id[2] \notin DOMAIN m THEN [store |-> m, ret |-> Ok(None)]
        ELSE [store |-> m, ret |-> Ok(Some(clone(m[id[2]])))]

MemoryStore_load_session_no_evict(m, cookie_value, clock) ==
    LET id == id_from_cookie_value(cookie_value)
    IN  IF ~IsOk(id) THEN [store |-> m, ret |-> id]
        ELSE IF id[2] \notin DOMAIN m THEN [store |-> m, ret |-> Ok(None)]
        ELSE IF is_expired(m[id[2]], clock)
             THEN [store |-> m, ret |-> Ok(None)]
             ELSE [store |-> m, ret |-> Ok(Some(clone(m[id[2]])))]

MemoryStore_load_session(m, cookie_value, clock) ==
    LET id == id_from_cookie_value(cookie_value)
    IN  IF ~IsOk(id) THEN [store |-> m, ret |-> id]
        ELSE IF id[2] \notin DOMAIN m THEN [store |-> m, ret |-> Ok(None)]
        ELSE IF is_expired(m[id[2]], clock)
             THEN [store |-> DashMap_remove(m, id[2]), ret |-> Ok(None)]
             ELSE [store |-> m, ret |-> Ok(Some(clone(m[id[2]])))]

MemoryStore_store_session_no_reset(m, s) ==
    LET t == take_cookie_value(s)
    IN  [ store |-> DashMap_insert(m, t.session.id, clone(t.session)),
          session |-> t.session,
          ret |-> Ok(t.ret) ]

MemoryStore_store_session_insert_if_absent(m, s) ==
    LET t == take_cookie_value(reset_data_changed(s))
    IN  [ store |-> IF t.session.id \in DOMAIN m THEN m
                    ELSE DashMap_insert(m, t.session.id, clone(t.session)),
          session |-> t.session,
          ret |-> Ok(t.ret) ]

MemoryStore_store_session_update_only(m, s) ==
    LET t == take_cookie_value(reset_data_changed(s))
    IN  [ store |-> IF t.session.id \in DOMAIN m
                    THEN DashMap_insert(m, t.session.id, clone(t.session)) ELSE m,
          session |-> t.session,
          ret |-> Ok(t.ret) ]

MemoryStore_store_session_clone_first(m, s) ==
    LET r == reset_data_changed(s)
        t == take_cookie_value(r)
    IN  [ store |-> DashMap_insert(m, r.id, clone(r)),
          session |-> t.session,
          ret |-> Ok(t.ret) ]

MemoryStore_store_session_merging(m, s) ==
    LET t == take_cookie_value(reset_data_changed(s))
        held == IF s.id \in DOMAIN m THEN m[s.id].data ELSE EmptyData
        merged == [k \in DOMAIN held \cup DOMAIN s.data |->
                     IF k \in DOMAIN s.data THEN s.data[k] ELSE held[k]]
    IN  [ store |-> DashMap_insert(m, t.session.id, clone([t.session EXCEPT !.data = merged])),
          session |-> t.session,
          ret |-> Ok(t.ret) ]

MemoryStore_store_session(m, s) ==
    LET t == take_cookie_value(reset_data_changed(s))
    IN  [ store |-> DashMap_insert(m, t.session.id, clone(t.session)),
          session |-> t.session,
          ret |-> Ok(t.ret) ]

MemoryStore_destroy_session_noop(m, s) == [store |-> m, ret |-> Ok(<<>>)]

MemoryStore_destroy_session_clears(m, s) == [store |-> EmptyMap, ret |-> Ok(<<>>)]

MemoryStore_destroy_session(m, s) ==
    [store |-> DashMap_remove(m, s.id), ret |-> Ok(<<>>)]

MemoryStore_clear_store_keeps_entries(m) == [store |-> m, ret |-> Ok(<<>>)]

MemoryStore_clear_store(m) == [store |-> EmptyMap, ret |-> Ok(<<>>)]

MemoryStore_cleanup(m, clock) ==
    [k \in {j \in DOMAIN m : ~is_expired(m[j], clock)} |-> m[k]]

MemoryStore_count(m) == Cardinality(DOMAIN m)

\* ---- cookie-store/src/lib.rs
CookieStore_load_session_lenient(cookie_value, clock) ==
    LET serialized == BASE64_decode(cookie_value)
    IN  IF ~IsOk(serialized) THEN Ok(None)
        ELSE LET session == bincode_json_from_slice(serialized[2])
             IN  IF ~IsOk(session) THEN Ok(None)
                 ELSE Ok(validate(session[2], clock))

CookieStore_load_session(cookie_value, clock) ==
    LET serialized == BASE64_decode(cookie_value)
    IN  IF ~IsOk(serialized) THEN serialized
        ELSE LET session == bincode_json_from_slice(serialized[2])
             IN  IF ~IsOk(session) THEN session
                 ELSE Ok(validate(session[2], clock))

CookieStore_store_session_pending_only(s) ==
    LET t == take_cookie_value(s)
    IN  [ session |-> t.session,
          ret |-> Ok(IF IsSome(t.ret)
                     THEN Some(BASE64_encode(bincode_json_to_vec(s))) ELSE None) ]

CookieStore_store_session_resets(s) ==
    [ session |-> reset_data_changed(s),
      ret |-> Ok(Some(BASE64_encode(bincode_json_to_vec(s)))) ]

CookieStore_store_session(s) ==
    [ session |-> s, ret |-> Ok(Some(BASE64_encode(bincode_json_to_vec(s)))) ]

CookieStore_destroy_session(s) == Ok(<<>>)

CookieStore_clear_store == Ok(<<>>)

\* ---- the caller: calls on its session variables and on the two stores
NoKey == None
NoVal == None

Call(op, slot, key, val, cookie, ret) ==
    [op |-> op, slot |-> slot, key |-> key, val |-> val, cookie |-> cookie, ret |-> ret]

Fresh == [origin |-> "new", armed |-> TRUE]
Persisted == [origin |-> "persisted", armed |-> FALSE]
Empty == [origin |-> "none", armed |-> FALSE]

Held(i) == IsSome(sess[i])
S(i) == Unwrap(sess[i])

Budget == ops < MaxOps

\* the calls that build a session with data_changed false, or make it false
Resetting == {"new", "from_parts", "reset_data_changed", "MemoryStore::store_session"}

Loading == {"MemoryStore::load_session", "CookieStore::load_session"}

\* the data the session s of variable i had when its data_changed was last
\* made false: by this call, or before it (a clone carries its original's)
Baseline(i, s, call) ==
    IF ~IsSome(s) THEN EmptyData
    ELSE IF call.op \in Loading
         THEN IF IsOk(call.ret) /\ IsSome(call.ret[2]) THEN Unwrap(s).data ELSE baseline[i]
    ELSE IF call.op \in Resetting THEN Unwrap(s).data
    ELSE IF call.op = "clone" THEN baseline[call.slot]
    ELSE baseline[i]

\* regenerate() of a session whose id the memory store holds: the old and the new id
Rotations(i, s, call) ==
    IF call.op = "regenerate" /\ Unwrap(sess[i]).id \in DOMAIN store
    THEN rotations \cup {<<Unwrap(sess[i]).id, Unwrap(s).id>>}
    ELSE rotations

\* the session variable i becomes s; everything but the stores is given here
Bind(i, s, call, tr) ==
    /\ sess' = [sess EXCEPT ![i] = s]
    /\ track' = [track EXCEPT ![i] = tr]
    /\ baseline' = [baseline EXCEPT ![i] = Baseline(i, s, call)]
    /\ rotations' = Rotations(i, s, call)
    /\ UNCHANGED cvars
    /\ last' = call
    /\ ops' = ops + 1

\* ---- concurrent callers of one MemoryStore (Arc<DashMap<String, Session>>)
Procs == {1, 2}
Shards == {1, 2}
\* the sessions the concurrent callers work with
ConcSeeds == {1, 2}
ConcSessions ==
    {new(d) : d \in ConcSeeds} \cup {set_expiry(new(d), 0) : d \in ConcSeeds}
ConcIds == {s.id : s \in ConcSessions}
ConcCookies == {generate_cookie(d) : d \in ConcSeeds} \cup Texts

NoSession == None
\* (the fields are written in the order TLC keeps them in)
Req(op, id, cookie, session) ==
    [k |-> 0, id |-> id, session |-> session, clock |-> 0, op |-> op, cookie |-> cookie]
NoReq == Req("none", None, None, NoSession)
NoRes == <<"none">>

Idle ==
    /\ pc = [p \in Procs |-> "idle"]
    /\ req = [p \in Procs |-> NoReq]
    /\ res = [p \in Procs |-> NoRes]
    /\ guard = [k \in Shards |-> 0]
    /\ scanned = [p \in Procs |-> {}]

Init ==
    /\ Idle
    /\ shard_of = [id \in ConcIds |-> 1]
    /\ now = 0
    /\ rng = 0
    /\ sess = [i \in Slots |-> None]
    /\ store = EmptyMap
    /\ last = Call("init", 0, NoKey, NoVal, None, Ok(<<>>))
    /\ issued = {}
    /\ track = [i \in Slots |-> Empty]
    /\ taken = {}
    /\ baseline = [i \in Slots |-> EmptyData]
    /\ rotations = {}
    /\ ops = 0

\* time passes between calls
Tick ==
    /\ now < MaxTime
    /\ now' = now + 1
    /\ UNCHANGED <<rng, sess, store, last, issued, track, taken, baseline, rotations, ops, cvars>>

NewSession(i) ==
    /\ Budget /\ rng < MaxSeeds
    /\ rng' = rng + 1
    /\ Bind(i, Some(new(rng + 1)), Call("new", i, NoKey, NoVal, None, Ok(<<>>)), Fresh)
    /\ UNCHANGED <<now, store, issued, taken>>

FromParts(i, id, data, expiry) ==
    /\ Budget
    /\ Bind(i, Some(from_parts(id, data, expiry)),
            Call("from_parts", i, NoKey, Some(<<id, data, expiry>>), None, Ok(<<>>)),
            [origin |-> "parts", armed |-> FALSE])
    /\ UNCHANGED <<now, rng, store, issued, taken>>

Clone(i, j) ==
    /\ Budget /\ Held(i) /\ i # j
    /\ Bind(j, Some(clone(S(i))), Call("clone", i, NoKey, NoVal, None, Ok(<<>>)),
            track[i])
    /\ UNCHANGED <<now, rng, store, issued, taken>>

InsertValue_aliased(i, key, value) ==
    /\ Budget /\ Held(i)
    /\ Bind(i, Some(insert_value(S(i), key, value)),
            Call("insert_value", i, Some(key), Some(value), None, Ok(<<>>)), track[i])
    /\ store' = IF S(i).id \in DOMAIN store /\ track[i] = Persisted
                THEN [store EXCEPT ![S(i).id].data = HashMap_insert(@, key, value)]
                ELSE store
    /\ UNCHANGED <<now, rng, issued, taken>>

InsertValue(i, key, value) ==
    /\ Budget /\ Held(i)
    /\ Bind(i, Some(insert_value(S(i), key, value)),
            Call("insert_value", i, Some(key), Some(value), None, Ok(<<>>)), track[i])
    /\ UNCHANGED <<now, rng, store, issued, taken>>

Remove(i, key) ==
    /\ Budget /\ Held(i)
    /\ Bind(i, Some(remove(S(i), key)),
            Call("remove", i, Some(key), NoVal, None, Ok(<<>>)), track[i])
    /\ UNCHANGED <<now, rng, store, issued, taken>>

TakeValue(i, key) ==
    /\ Budget /\ Held(i)
    /\ LET r == take_value(S(i), key)
       IN  Bind(i, Some(r.session), Call("take_value", i, Some(key), NoVal, None, r.ret), track[i])
    /\ UNCHANGED <<now, rng, store, issued, taken>>

Regenerate(i) ==
    /\ Budget /\ Held(i) /\ rng < MaxSeeds
    /\ rng' = rng + 1
    /\ Bind(i, Some(regenerate(S(i), rng + 1)),
            Call("regenerate", i, NoKey, NoVal, None, Ok(<<>>)), Fresh)
    /\ UNCHANGED <<now, store, issued, taken>>

SetCookieValue(i, cookie_value) ==
    /\ Budget /\ Held(i)
    /\ Bind(i, Some(set_cookie_value(S(i), cookie_value)),
            Call("set_cookie_value", i, NoKey, NoVal, Some(cookie_value), Ok(<<>>)),
            [origin |-> track[i].origin, armed |-> TRUE])
    /\ UNCHANGED <<now, rng, store, issued, taken>>

SetExpiry(i, expiry) ==
    /\ Budget /\ Held(i)
    /\ Bind(i, Some(set_expiry(S(i), expiry)),
            Call("set_expiry", i, NoKey, Some(expiry), None, Ok(<<>>)), track[i])
    /\ UNCHANGED <<now, rng, store, issued, taken>>

ExpireIn(i, ttl) ==
    /\ Budget /\ Held(i)
    /\ Bind(i, Some(expire_in(S(i), ttl, now)),
            Call("expire_in", i, NoKey, Some(ttl), None, Ok(<<>>)), track[i])
    /\ UNCHANGED <<now, rng, store, issued, taken>>

Destroy(i) ==
    /\ Budget /\ Held(i)
    /\ Bind(i, Some(destroy(S(i))), Call("destroy", i, NoKey, NoVal, None, Ok(<<>>)), track[i])
    /\ UNCHANGED <<now, rng, store, issued, taken>>

ResetDataChanged(i) ==
    /\ Budget /\ Held(i)
    /\ Bind(i, Some(reset_data_changed(S(i))),
            Call("reset_data_changed", i, NoKey, NoVal, None, Ok(<<>>)), track[i])
    /\ UNCHANGED <<now, rng, store, issued, taken>>

\* validate(self) consumes the session: the variable holds what it returns
Validate(i) ==
    /\ Budget /\ Held(i)
    /\ LET r == validate(S(i), now)
       IN  Bind(i, r, Call("validate", i, NoKey, NoVal, None, r),
                IF IsSome(r) THEN track[i] ELSE Empty)
    /\ UNCHANGED <<now, rng, store, issued, taken>>

TakeCookieValue(i) ==
    /\ Budget /\ Held(i)
    /\ LET r == take_cookie_value(S(i))
       IN  /\ Bind(i, Some(r.session), Call("take_cookie_value", i, NoKey, NoVal, None, r.ret),
                   [origin |-> track[i].origin, armed |-> FALSE])
           /\ taken' = taken \cup {r.ret[k] : k \in DOMAIN r.ret}
    /\ UNCHANGED <<now, rng, store, issued>>

\* into_cookie_value(self) consumes the session
IntoCookieValue(i) ==
    /\ Budget /\ Held(i)
    /\ LET r == into_cookie_value(S(i))
       IN  /\ Bind(i, None, Call("into_cookie_value", i, NoKey, NoVal, None, r), Empty)
           /\ taken' = taken \cup {r[k] : k \in DOMAIN r}
    /\ UNCHANGED <<now, rng, store, issued>>

\* ---- history of the cookie values the stores handed out
Issue(backend, cookie, s) ==
    [ backend |-> backend, cookie |-> cookie, id |-> s.id, data |-> s.data,
      expiry |-> s.expiry, status |-> "live" ]

\* the memory store's records for the ids given get the status given
Mark(recs, ids, status) ==
    { IF r.backend = "memory" /\ r.id \in ids
      THEN [r EXCEPT !.status = status] ELSE r : r \in recs }

\* store_session for the id given: its records are overwritten, or recreated
\* when destroy_session or clear_store had removed the entry before
Restore(recs, id) ==
    { IF r.backend = "memory" /\ r.id = id
      THEN [r EXCEPT !.status = IF r.status \in {"destroyed", "cleared", "recreated"}
                                THEN "recreated" ELSE "overwritten"]
      ELSE r : r \in recs }

\* the cookie store's records for the ids given: the call made for them since
Called(recs, ids, status) ==
    { IF r.backend = "cookie" /\ r.id \in ids
      THEN [r EXCEPT !.status = status] ELSE r : r \in recs }

CookieIds == {r.id : r \in {x \in issued : x.backend = "cookie"}}

MemoryIds == {r.id : r \in {x \in issued : x.backend = "memory"}}

\* the cookie values a caller may present: those handed out, those pending in
\* its sessions, the ids of stored sessions, and texts that are not base64
Presented ==
    {r.cookie : r \in issued}
      \cup {S(i).cookie_value[1] : i \in {j \in Slots : Held(j) /\ IsSome(S(j).cookie_value)}}
      \cup DOMAIN store
      \cup Texts

MemLoadSession(i, cookie_value) ==
    /\ Budget
    /\ LET r == MemoryStore_load_session(store, cookie_value, now)
           found == IsOk(r.ret) /\ IsSome(r.ret[2])
       IN  /\ store' = r.store
           /\ Bind(i, IF found THEN r.ret[2] ELSE sess[i],
                   Call("MemoryStore::load_session", i, NoKey, NoVal, Some(cookie_value), r.ret),
                   IF found THEN Persisted ELSE track[i])
    /\ UNCHANGED <<now, rng, issued, taken>>

MemStoreSession(i) ==
    /\ Budget /\ Held(i)
    /\ LET r == MemoryStore_store_session(store, S(i))
       IN  /\ store' = r.store
           /\ Bind(i, Some(r.session),
                   Call("MemoryStore::store_session", i, NoKey, NoVal, None, r.ret), Persisted)
           /\ issued' = Restore(issued, S(i).id)
                          \cup {Issue("memory", r.ret[2][k], S(i)) : k \in DOMAIN r.ret[2]}
           /\ taken' = taken \cup {r.ret[2][k] : k \in DOMAIN r.ret[2]}
    /\ UNCHANGED <<now, rng>>

MemDestroySession(i) ==
    /\ Budget /\ Held(i)
    /\ LET r == MemoryStore_destroy_session(store, S(i))
       IN  /\ store' = r.store
           /\ Bind(i, sess[i],
                   Call("MemoryStore::destroy_session", i, NoKey, NoVal, None, r.ret), track[i])
           /\ issued' = Mark(issued, {S(i).id}, "destroyed")
    /\ UNCHANGED <<now, rng, taken>>

MemClearStore ==
    /\ Budget
    /\ LET r == MemoryStore_clear_store(store)
       IN  /\ store' = r.store
           /\ last' = Call("MemoryStore::clear_store", 0, NoKey, NoVal, None, r.ret)
           /\ issued' = Mark(issued, MemoryIds, "cleared")
    /\ ops' = ops + 1
    /\ UNCHANGED <<now, rng, sess, track, taken, baseline, rotations, cvars>>

MemCleanup ==
    /\ Budget
    /\ store' = MemoryStore_cleanup(store, now)
    /\ last' = Call("MemoryStore::cleanup", 0, NoKey, NoVal, None, Ok(<<>>))
    /\ ops' = ops + 1
    /\ UNCHANGED <<now, rng, sess, issued, track, taken, baseline, rotations, cvars>>

CookieLoadSession(i, cookie_value) ==
    /\ Budget
    /\ LET r == CookieStore_load_session(cookie_value, now)
           found == IsOk(r) /\ IsSome(r[2])
       IN  Bind(i, IF found THEN r[2] ELSE sess[i],
                Call("CookieStore::load_session", i, NoKey, NoVal, Some(cookie_value), r),
                IF found THEN Persisted ELSE track[i])
    /\ UNCHANGED <<now, rng, store, issued, taken>>

CookieStoreSession(i) ==
    /\ Budget /\ Held(i)
    /\ LET r == CookieStore_store_session(S(i))
       IN  /\ Bind(i, Some(r.session),
                   Call("CookieStore::store_session", i, NoKey, NoVal, None, r.ret), track[i])
           /\ issued' = issued \cup {Issue("cookie", r.ret[2][k], S(i)) : k \in DOMAIN r.ret[2]}
    /\ UNCHANGED <<now, rng, store, taken>>

CookieDestroySession(i) ==
    /\ Budget /\ Held(i)
    /\ Bind(i, sess[i],
            Call("CookieStore::destroy_session", i, NoKey, NoVal, None,
                 CookieStore_destroy_session(S(i))), track[i])
    /\ issued' = Called(issued, {S(i).id}, "destroyed")
    /\ UNCHANGED <<now, rng, store, taken>>

CookieClearStore ==
    /\ Budget
    /\ last' = Call("CookieStore::clear_store", 0, NoKey, NoVal, None, CookieStore_clear_store)
    /\ ops' = ops + 1
    /\ issued' = Called(issued, CookieIds, "cleared")
    /\ UNCHANGED <<now, rng, sess, store, track, taken, baseline, rotations, cvars>>

\* ---- concurrent callers: each call on the MemoryStore, one step per access
\* ---- to the DashMap's shard locks.  The session of store_session and
\* ---- destroy_session is the caller's own (&mut), only the map is shared.
determine_shard_single(id) == 1

determine_shard(id) == shard_of[id]

\* the calls that are about to take a shard's write lock, and the shard
Wanting == {"entry", "insert", "remove", "clear", "retain"}

WantedShard(p) ==
    IF pc[p] \in {"clear", "retain"} THEN req[p].k ELSE determine_shard(Unwrap(req[p].id))

\* where a call is once it holds the lock
Holding(at) ==
    CASE at = "entry" -> "check"
      [] at = "insert" -> "inserting"
      [] at = "remove" -> "removing"
      [] at = "clear" -> "clearing"
      [] at = "retain" -> "retaining"

\* what the cleanup of caller p has seen once it has been through the shard
\* it holds: each entry with its key, and whether retain's closure drops it
Scanned(p) ==
    IF pc[p] = "retaining"
    THEN scanned[p] \cup
         { <<id, store[id], is_expired(store[id], now)>> :
             id \in {j \in DOMAIN store : determine_shard(j) = req[p].k} }
    ELSE scanned[p]

drop_guard_leaked(g, p) == g

\* the RwLockWriteGuard of caller p goes out of scope
drop_guard(g, p) == [k \in Shards |-> IF g[k] = p THEN 0 ELSE g[k]]

\* caller p starts the call r
Begin(p, at, r) ==
    /\ pc[p] = "idle"
    /\ pc' = [pc EXCEPT ![p] = at]
    /\ req' = [req EXCEPT ![p] = r]
    /\ res' = [res EXCEPT ![p] = NoRes]
    /\ UNCHANGED <<now, rng, sess, store, last, issued, track, taken, baseline, rotations, ops,
                   guard, shard_of, scanned>>

\* the call of caller p returns ret
Return(p, ret) ==
    /\ pc' = [pc EXCEPT ![p] = "idle"]
    /\ req' = [req EXCEPT ![p] = NoReq]
    /\ res' = [res EXCEPT ![p] = ret]
    /\ guard' = drop_guard(guard, p)
    /\ scanned' = [scanned EXCEPT ![p] = {}]
    /\ UNCHANGED <<now, rng, sess, last, issued, track, taken, baseline, rotations, ops, shard_of>>

\* the call of caller p goes on at `at`, holding what it holds
Goto(p, at, r) ==
    /\ pc' = [pc EXCEPT ![p] = at]
    /\ req' = [req EXCEPT ![p] = r]
    /\ scanned' = [scanned EXCEPT ![p] = Scanned(p)]
    /\ UNCHANGED <<now, rng, sess, last, issued, track, taken, baseline, rotations, ops,
                   res, shard_of>>

\* load_session: id_from_cookie_value(cookie_value)?
BeginLoad(p, cookie_value) ==
    LET id == id_from_cookie_value(cookie_value)
    IN  IF IsOk(id)
        THEN Begin(p, "entry", Req("load", Some(id[2]), Some(cookie_value), NoSession))
        ELSE /\ pc[p] = "idle"
             /\ res' = [res EXCEPT ![p] = id]
             /\ UNCHANGED <<now, rng, sess, store, last, issued, track, taken, baseline,
                            rotations, ops, pc, req, guard, shard_of, scanned>>

BeginStore(p, s) == Begin(p, "insert", Req("store", Some(s.id), None, Some(s)))

BeginDestroy(p, s) == Begin(p, "remove", Req("destroy", Some(s.id), None, Some(s)))

BeginClear(p) ==
    Begin(p, "clear", [Req("clear", None, None, NoSession) EXCEPT !.k = 1])

BeginCleanup(p) ==
    Begin(p, "retain", [Req("cleanup", None, None, NoSession) EXCEPT !.k = 1])

\* DashMap::entry, insert, remove, retain: the shard's write lock, once free
Acquire(p) ==
    /\ pc[p] \in Wanting
    /\ guard[WantedShard(p)] = 0
    /\ guard' = [guard EXCEPT ![WantedShard(p)] = p]
    /\ pc' = [pc EXCEPT ![p] = Holding(pc[p])]
    /\ UNCHANGED <<now, rng, sess, store, last, issued, track, taken, baseline, rotations, ops,
                   req, res, shard_of, scanned>>

LoadCheck_unlocked(p) ==
    /\ pc[p] = "check"
    /\ LET id == Unwrap(req[p].id)
       IN  IF id \notin DOMAIN store
           THEN Return(p, Ok(None)) /\ UNCHANGED store
           ELSE /\ guard' = drop_guard(guard, p)
                /\ Goto(p, IF is_expired(store[id], now) THEN "evict" ELSE "clone",
                        [req[p] EXCEPT !.clock = now])
                /\ UNCHANGED store

\* let Occupied(entry) = self.0.entry(id) else { return Ok(None) };
\* entry.get().is_expired()
LoadCheck(p) ==
    /\ pc[p] = "check"
    /\ LET id == Unwrap(req[p].id)
       IN  IF id \notin DOMAIN store
           THEN Return(p, Ok(None)) /\ UNCHANGED store
           ELSE /\ Goto(p, IF is_expired(store[id], now) THEN "evict" ELSE "clone",
                        [req[p] EXCEPT !.clock = now])
                /\ UNCHANGED <<store, guard>>

\* entry.remove(); Ok(None)
LoadEvict(p) ==
    /\ pc[p] = "evict"
    /\ store' = DashMap_remove(store, Unwrap(req[p].id))
    /\ Return(p, Ok(None))

\* Ok(Some(entry.get().clone()))
LoadClone(p) ==
    /\ pc[p] = "clone"
    /\ Unwrap(req[p].id) \in DOMAIN store
    /\ Return(p, Ok(Some(clone(store[Unwrap(req[p].id)]))))
    /\ UNCHANGED store

StoreInsert(p) ==
    /\ pc[p] = "inserting"
    /\ LET r == MemoryStore_store_session(store, Unwrap(req[p].session))
       IN  store' = r.store /\ Return(p, r.ret)

DestroyRemove(p) ==
    /\ pc[p] = "removing"
    /\ LET r == MemoryStore_destroy_session(store, Unwrap(req[p].session))
       IN  store' = r.store /\ Return(p, r.ret)

\* the entries of m outside shard k, and those of shard k whose key is in keep
ShardRetain(m, k, keep) ==
    [id \in {j \in DOMAIN m : determine_shard(j) # k \/ j \in keep} |-> m[id]]

\* the shard is done: the next shard, or the call returns
NextShard(p, ret) ==
    IF req[p].k = Cardinality(Shards)
    THEN Return(p, ret)
    ELSE /\ guard' = drop_guard(guard, p)
         /\ Goto(p, IF req[p].op = "clear" THEN "clear" ELSE "retain",
                 [req[p] EXCEPT !.k = req[p].k + 1])

\* DashMap::clear: each shard in turn, one lock at a time
ClearShard(p) ==
    /\ pc[p] = "clearing"
    /\ store' = ShardRetain(store, req[p].k, {})
    /\ NextShard(p, Ok(<<>>))

CleanupShard_inverted(p) ==
    /\ pc[p] = "retaining"
    /\ store' = ShardRetain(store, req[p].k,
                            {id \in DOMAIN store : is_expired(store[id], now)})
    /\ NextShard(p, Ok(<<>>))

\* DashMap::retain(|_, session| !session.is_expired()): each shard in turn
CleanupShard(p) ==
    /\ pc[p] = "retaining"
    /\ store' = ShardRetain(store, req[p].k,
                            {id \in DOMAIN store : ~is_expired(store[id], now)})
    /\ NextShard(p, Ok(<<>>))

\* ---- specifications
\* A caller of the memory store.  set_cookie_value, take_cookie_value and
\* from_parts are left to store implementers (session.rs 106-108, 361-364,
\* 574-575) and neither store of the repository calls set_cookie_value or
\* from_parts, so this caller does not call them.
Next ==
    \/ Tick
    \/ \E i \in Slots : NewSession(i)
    \/ \E i, j \in Slots : Clone(i, j)
    \/ \E i \in Slots, k \in Keys, v \in Vals : InsertValue(i, k, v)
    \/ \E i \in Slots, k \in Keys : Remove(i, k)
    \/ \E i \in Slots : Regenerate(i)
    \/ \E i \in Slots, e \in Times : SetExpiry(i, e)
    \/ \E i \in Slots, d \in Ttls : ExpireIn(i, d)
    \/ \E i \in Slots : Destroy(i)
    \/ \E i \in Slots, c \in Presented : MemLoadSession(i, c)
    \/ \E i \in Slots : MemStoreSession(i)
    \/ \E i \in Slots : MemDestroySession(i)
    \/ MemClearStore
    \/ MemCleanup

Spec == Init /\ [][Next]_vars

\* A caller of a memory store that is in use: a session was stored before,
\* its caller still holds it, and the calls are counted from here on.
InitStored ==
    LET r == MemoryStore_store_session(EmptyMap, new(1))
    IN  /\ Idle
        /\ shard_of = [id \in ConcIds |-> 1]
        /\ now = 0
        /\ rng = 1
        /\ sess = [i \in Slots |-> IF i = 1 THEN Some(r.session) ELSE None]
        /\ store = r.store
        /\ last = Call("MemoryStore::store_session", 1, NoKey, NoVal, None, r.ret)
        /\ issued = {Issue("memory", Unwrap(r.ret[2]), new(1))}
        /\ track = [i \in Slots |-> IF i = 1 THEN Persisted ELSE Empty]
        /\ taken = {Unwrap(r.ret[2])}
        /\ baseline = [i \in Slots |-> EmptyData]
        /\ rotations = {}
        /\ ops = 0

NextStored ==
    \/ Tick
    \/ \E i \in Slots, k \in Keys, v \in Vals : InsertValue(i, k, v)
    \/ \E i \in Slots : Regenerate(i)
    \/ \E i \in Slots, e \in Times : SetExpiry(i, e)
    \/ \E i \in Slots, c \in Presented : MemLoadSession(i, c)
    \/ \E i \in Slots : MemStoreSession(i)

SpecStored == InitStored /\ [][NextStored]_vars

\* A caller of both stores: what the two backends have in common.
NextStores ==
    \/ Tick
    \/ \E i \in Slots : NewSession(i)
    \/ \E i \in Slots, k \in Keys, v \in Vals : InsertValue(i, k, v)
    \/ \E i \in Slots, e \in Times : SetExpiry(i, e)
    \/ \E i \in Slots, d \in Ttls : ExpireIn(i, d)
    \/ \E i \in Slots : Destroy(i)
    \/ \E i \in Slots, c \in Presented : MemLoadSession(i, c)
    \/ \E i \in Slots : MemStoreSession(i)
    \/ \E i \in Slots, c \in Presented : CookieLoadSession(i, c)
    \/ \E i \in Slots : CookieStoreSession(i)
    \/ \E i \in Slots : CookieDestroySession(i)
    \/ CookieClearStore

SpecStores == Init /\ [][NextStores]_vars

\* A user of the Session type alone, store implementers included.
SessionBudget == ops < MaxSessionOps

\* what a store hands to from_parts: the id of a session made elsewhere
PartsId == BASE64_encode(blake3_hash(<<"rand", 0>>))
PartsData == {HashMap_insert(EmptyData, k, v) : k \in Keys, v \in Vals}

NextSession ==
    \/ SessionBudget /\ Tick
    \/ SessionBudget /\ \E i \in Slots : NewSession(i)
    \/ SessionBudget /\ \E i \in Slots, d \in PartsData, e \in {None, Some(1)} :
          FromParts(i, PartsId, d, e)
    \/ SessionBudget /\ \E i, j \in Slots : Clone(i, j)
    \/ SessionBudget /\ \E i \in Slots, k \in Keys, v \in Vals : InsertValue(i, k, v)
    \/ SessionBudget /\ \E i \in Slots, k \in Keys : Remove(i, k)
    \/ SessionBudget /\ \E i \in Slots, k \in Keys : TakeValue(i, k)
    \/ SessionBudget /\ \E i \in Slots : Regenerate(i)
    \/ SessionBudget /\ \E i \in Slots, c \in Texts \cup taken : SetCookieValue(i, c)
    \/ SessionBudget /\ \E i \in Slots, e \in Times : SetExpiry(i, e)
    \/ SessionBudget /\ \E i \in Slots, d \in Ttls : ExpireIn(i, d)
    \/ SessionBudget /\ \E i \in Slots : Destroy(i)
    \/ SessionBudget /\ \E i \in Slots : ResetDataChanged(i)
    \/ SessionBudget /\ \E i \in Slots : Validate(i)
    \/ SessionBudget /\ \E i \in Slots : TakeCookieValue(i)
    \/ SessionBudget /\ \E i \in Slots : IntoCookieValue(i)

SpecSession == Init /\ [][NextSession]_vars

\* Concurrent callers of one memory store.
InitConcurrent ==
    /\ Idle
    /\ shard_of \in [ConcIds -> Shards]
    /\ now = 0
    /\ rng = 0
    /\ sess = [i \in Slots |-> None]
    /\ store = EmptyMap
    /\ last = Call("init", 0, NoKey, NoVal, None, Ok(<<>>))
    /\ issued = {}
    /\ track = [i \in Slots |-> Empty]
    /\ taken = {}
    /\ baseline = [i \in Slots |-> EmptyData]
    /\ rotations = {}
    /\ ops = 0

\* the steps of a call once it has begun, the lock apart
Step(p) ==
    \/ LoadCheck(p)
    \/ LoadEvict(p)
    \/ LoadClone(p)
    \/ StoreInsert(p)
    \/ DestroyRemove(p)
    \/ ClearShard(p)
    \/ CleanupShard(p)

NextConcurrent ==
    \/ Tick
    \/ \E p \in Procs, c \in ConcCookies : BeginLoad(p, c)
    \/ \E p \in Procs, s \in ConcSessions : BeginStore(p, s)
    \/ \E p \in Procs, s \in ConcSessions : BeginDestroy(p, s)
    \/ \E p \in Procs : BeginClear(p)
    \/ \E p \in Procs : BeginCleanup(p)
    \/ \E p \in Procs : Acquire(p)
    \/ \E p \in Procs : LoadCheck(p)
    \/ \E p \in Procs : LoadEvict(p)
    \/ \E p \in Procs : LoadClone(p)
    \/ \E p \in Procs : StoreInsert(p)
    \/ \E p \in Procs : DestroyRemove(p)
    \/ \E p \in Procs : ClearShard(p)
    \/ \E p \in Procs : CleanupShard(p)

SpecConcurrent == InitConcurrent /\ [][NextConcurrent]_vars

\* A caller that calls runs on: a step that stays enabled is taken, and a
\* caller does not miss a lock that is free again and again.
SpecConcurrentFair ==
    /\ SpecConcurrent
    /\ \A p \in Procs : WF_vars(Step(p)) /\ SF_vars(Acquire(p))

\* ---- properties
\* this step is a call of op
CallStep(op) == ops' = ops + 1 /\ last'.op = op

\* this step is a load_session of the backend with the cookie value of record r
LoadOf(backend, r) ==
    /\ CallStep(IF backend = "memory" THEN "MemoryStore::load_session"
                ELSE "CookieStore::load_session")
    /\ r.backend = backend
    /\ last'.cookie = Some(r.cookie)

Passed(expiry, clock) == IsSome(expiry) /\ expiry[1] < clock

Found(ret) == IsOk(ret) /\ IsSome(ret[2])

SameDurable(s, r) == s.id = r.id /\ s.data = r.data /\ s.expiry = r.expiry

\* C1: a session stored in the memory store with cookie value c returned is
\* loaded again by load_session(c), with the id, data and expiry it had when
\* stored, as long as its expiry has not passed and no destroy_session,
\* clear_store or store_session for its id came in between.
C1_MemoryRoundTrip ==
    [][\A r \in issued :
          (LoadOf("memory", r) /\ r.status = "live" /\ ~Passed(r.expiry, now))
            => (Found(last'.ret) /\ SameDurable(last'.ret[2][1], r))]_vars

C1_Witness ==
    /\ last.op = "MemoryStore::load_session"
    /\ Found(last.ret)
    /\ last.ret[2][1].data # EmptyData
    /\ IsSome(last.ret[2][1].expiry)
    /\ \E r \in issued :
          /\ r.backend = "memory" /\ r.status = "live" /\ last.cookie = Some(r.cookie)
          /\ SameDurable(last.ret[2][1], r)

\* C2: a session stored in the cookie store is loaded again from the cookie
\* value returned, with the same id, data and expiry, as long as its expiry
\* has not passed; a copy stored with other data gets another cookie value
\* (which, by the first part, loads that other data).
C2_CookieRoundTrip ==
    [][/\ \A r \in issued :
             (LoadOf("cookie", r) /\ ~Passed(r.expiry, now))
               => (Found(last'.ret) /\ SameDurable(last'.ret[2][1], r))
       /\ \A r1, r2 \in {r \in issued' : r.backend = "cookie"} :
             r1.data # r2.data => r1.cookie # r2.cookie]_vars

C2_Witness ==
    /\ last.op = "CookieStore::load_session"
    /\ Found(last.ret)
    /\ last.ret[2][1].data # EmptyData
    /\ \E r1, r2 \in issued :
          /\ r1.backend = "cookie" /\ r2.backend = "cookie"
          /\ r1.id = r2.id /\ r1.data # r2.data
          /\ last.cookie = Some(r2.cookie)
          /\ SameDurable(last.ret[2][1], r2)

\* C3: on both backends a stored session is returned by load_session while
\* its expiry has not passed and load_session returns Ok(None), not an
\* error, once it has; no session load_session returns is expired.
C3_ExpiryIsAbsence ==
    [][/\ \A r \in issued :
             ( /\ LoadOf("memory", r) \/ LoadOf("cookie", r)
               /\ r.backend = "memory" => r.status = "live" )
               => IF Passed(r.expiry, now)
                  THEN last'.ret = Ok(None)
                  ELSE Found(last'.ret)
       /\ ( /\ CallStep("MemoryStore::load_session") \/ CallStep("CookieStore::load_session")
            /\ Found(last'.ret) )
            => ~Passed(last'.ret[2][1].expiry, now)]_vars

C3_Witness ==
    /\ last.op = "MemoryStore::load_session"
    /\ last.ret = Ok(None)
    /\ \E r \in issued :
          /\ r.backend = "memory" /\ r.status = "live" /\ last.cookie = Some(r.cookie)
          /\ Passed(r.expiry, now)

\* C4: MemoryStore::store_session returns the session's pending cookie value
\* and leaves the session none; for a session from new() (or regenerated)
\* that is Some(c) with id_from_cookie_value(c) the session's id, for a
\* session loaded or stored before and not regenerated it is None; the
\* entry under the id holds the session's data and expiry afterwards.
C4_StoreReturnsPending ==
    [][\A i \in Slots :
          (CallStep("MemoryStore::store_session") /\ last'.slot = i)
            => /\ last'.ret = Ok(S(i).cookie_value)
               /\ sess'[i][1].cookie_value = None
               /\ track[i].origin = "new"
                    => /\ IsSome(last'.ret[2])
                       /\ id_from_cookie_value(last'.ret[2][1]) = Ok(S(i).id)
               /\ track[i].origin = "persisted" => last'.ret = Ok(None)
               /\ S(i).id \in DOMAIN store'
               /\ store'[S(i).id].data = S(i).data
               /\ store'[S(i).id].expiry = S(i).expiry]_vars

C4_Witness ==
    /\ last.op = "MemoryStore::store_session"
    /\ last.ret = Ok(None)
    /\ \E r \in issued :
          /\ r.backend = "memory" /\ r.status = "overwritten" /\ r.id = S(last.slot).id
          /\ store[r.id].data # r.data

\* C5: store_session of the memory store leaves the caller's session with
\* data_changed false, and a session load_session returns for the cookie
\* value has data_changed false and the data that was stored.
C5_StoreResetsDataChanged ==
    [][/\ \A i \in Slots :
             (CallStep("MemoryStore::store_session") /\ last'.slot = i)
               => ~data_changed(sess'[i][1])
       /\ (CallStep("MemoryStore::load_session") /\ Found(last'.ret))
            => ~data_changed(last'.ret[2][1])
       /\ \A r \in issued :
             (LoadOf("memory", r) /\ r.status = "live" /\ Found(last'.ret))
               => last'.ret[2][1].data = r.data]_vars

C5_Witness ==
    /\ last.op = "MemoryStore::load_session"
    /\ Found(last.ret)
    /\ ~data_changed(last.ret[2][1])
    /\ \E k \in Keys : get_value(last.ret[2][1], k) = Some(1)
    /\ \E i \in Slots : Held(i) /\ ~data_changed(S(i)) /\ S(i).data # EmptyData

\* C6: destroy_session of the memory store removes the entry of the
\* session's id and nothing else, returns Ok whether or not the id is
\* present, and leaves the store unchanged when it is absent; afterwards
\* load_session with the session's cookie value returns Ok(None).
C6_DestroyIdempotent ==
    [][/\ \A i \in Slots :
             (CallStep("MemoryStore::destroy_session") /\ last'.slot = i)
               => /\ last'.ret = Ok(<<>>)
                  /\ IF S(i).id \in DOMAIN store
                     THEN /\ MemoryStore_count(store') = MemoryStore_count(store) - 1
                          /\ S(i).id \notin DOMAIN store'
                     ELSE store' = store
       /\ \A r \in issued :
             (LoadOf("memory", r) /\ r.status = "destroyed") => last'.ret = Ok(None)]_vars

C6_Witness ==
    /\ last.op = "MemoryStore::destroy_session"
    /\ MemoryStore_count(store) = 1
    /\ S(last.slot).id \notin DOMAIN store
    /\ \E r \in issued : r.status = "destroyed" /\ r.id = S(last.slot).id

\* C7: clear_store of the memory store leaves no entry, whatever it held,
\* and load_session with a cookie value issued before returns Ok(None).
C7_ClearStoreEmpties ==
    [][/\ CallStep("MemoryStore::clear_store")
            => (MemoryStore_count(store') = 0 /\ last'.ret = Ok(<<>>))
       /\ \A r \in issued :
             (LoadOf("memory", r) /\ r.status = "cleared") => last'.ret = Ok(None)]_vars

C7_Witness ==
    /\ last.op = "MemoryStore::load_session"
    /\ last.ret = Ok(None)
    /\ \E r \in issued :
          r.backend = "memory" /\ r.status = "cleared" /\ last.cookie = Some(r.cookie)

\* this step is take_cookie_value or into_cookie_value on session variable i
TakeStep(i) ==
    /\ CallStep("take_cookie_value") \/ CallStep("into_cookie_value")
    /\ last'.slot = i

\* C8 as stated: take_cookie_value and into_cookie_value return the pending
\* value and leave none, and no cookie value is returned by two takes.
C8_SecretTakenOnce ==
    [][\A i \in Slots :
          TakeStep(i)
            => /\ last'.ret = S(i).cookie_value
               /\ CallStep("take_cookie_value") => sess'[i][1].cookie_value = None
               /\ IsSome(last'.ret) => last'.ret[1] \notin taken]_vars

\* C8, amended: take_cookie_value and into_cookie_value return the pending
\* value and leave none, so a take on a session object returns a value only
\* if new(), regenerate(), set_cookie_value() or the clone that made the
\* object installed one since the object's last take.
C8_TakenOncePerInstall ==
    [][\A i \in Slots :
          TakeStep(i)
            => /\ last'.ret = S(i).cookie_value
               /\ CallStep("take_cookie_value") => sess'[i][1].cookie_value = None
               /\ IsSome(last'.ret) => track[i].armed]_vars

C8_Witness ==
    /\ last.op = "take_cookie_value"
    /\ last.ret = None
    /\ \E c \in taken : id_from_cookie_value(c) = Ok(S(last.slot).id)
    /\ ~track[last.slot].armed

\* C9: insert_value(k, v) leaves data[k] = v and every other key as it was;
\* it sets data_changed exactly when k was absent or held another value,
\* and otherwise changes nothing.
C9_InsertValue ==
    [][\A i \in Slots :
          (CallStep("insert_value") /\ last'.slot = i)
            => LET k == last'.key[1]
                   v == last'.val[1]
                   s == S(i)
                   s2 == sess'[i][1]
                   differs == k \notin DOMAIN s.data \/ s.data[k] # v
               IN  /\ get_value(s2, k) = Some(v)
                   /\ \A j \in Keys \ {k} : get_value(s2, j) = get_value(s, j)
                   /\ differs => s2.data_changed
                   /\ ~differs => s2 = s]_vars

C9_Witness ==
    /\ last.op = "insert_value"
    /\ get_value(S(last.slot), last.key[1]) = last.val
    /\ ~S(last.slot).data_changed

\* C10: remove(k) and take_value(k) delete k and set data_changed when k was
\* present and change nothing when it was absent; take_value returns the
\* value removed, or None.
C10_RemoveTakeValue ==
    [][\A i \in Slots :
          ( /\ CallStep("remove") \/ CallStep("take_value")
            /\ last'.slot = i )
            => LET k == last'.key[1]
                   s == S(i)
                   s2 == sess'[i][1]
               IN  /\ k \notin DOMAIN s2.data
                   /\ \A j \in Keys \ {k} : get_value(s2, j) = get_value(s, j)
                   /\ k \in DOMAIN s.data => s2.data_changed
                   /\ k \notin DOMAIN s.data => s2 = s
                   /\ CallStep("take_value") => last'.ret = get_value(s, k)]_vars

C10_Witness ==
    /\ last.op = "take_value"
    /\ IsSome(last.ret)
    /\ S(last.slot).data_changed
    /\ last.key[1] \notin DOMAIN S(last.slot).data
    /\ S(last.slot).data # EmptyData

\* ---- change tracking
\* this step is a call on session variable i that edits the data
EditStep(i) ==
    /\ CallStep("insert_value") \/ CallStep("remove") \/ CallStep("take_value")
    /\ last'.slot = i

\* C11 as stated: data_changed() is true exactly when the data differs from
\* what it was at creation or at the last reset_data_changed.
C11_DataChangedIsDifference ==
    \A i \in Slots : Held(i) => (data_changed(S(i)) <=> S(i).data # baseline[i])

\* C11, amended: data_changed() is true exactly when a call of insert_value,
\* remove or take_value since creation or the last reset altered the data:
\* each such call leaves the flag set if it was set or if the call altered
\* the data, so the flag is set whenever the data differs from the baseline,
\* and stays set when the data is brought back to the baseline.
C11_DataChangedIsSticky ==
    /\ [](\A i \in Slots : (Held(i) /\ S(i).data # baseline[i]) => data_changed(S(i)))
    /\ [][\A i \in Slots :
             EditStep(i)
               => (data_changed(sess'[i][1])
                     <=> (data_changed(S(i)) \/ sess'[i][1].data # S(i).data))]_vars

C11_Witness ==
    /\ last.op \in {"insert_value", "remove", "take_value"}
    /\ data_changed(S(last.slot))
    /\ S(last.slot).data = baseline[last.slot]
    /\ baseline[last.slot] # EmptyData

C13_IdIsNotACookie ==
    [][\A id \in DOMAIN store :
          (CallStep("MemoryStore::load_session") /\ last'.cookie = Some(id))
            => ~(Found(last'.ret) /\ last'.ret[2][1].id = id)]_vars

C13_Witness ==
    /\ last.op = "MemoryStore::load_session"
    /\ last.cookie[1] \in DOMAIN store
    /\ last.ret = Ok(None)
    /\ ~is_expired(store[last.cookie[1]], now)

\* C14: after regenerate() the session has a pending cookie value whose
\* id_from_cookie_value is the session's id, the id is not the one it had
\* before, and data and expiry are as they were.
C14_RegenerateRotates ==
    [][\A i \in Slots :
          (CallStep("regenerate") /\ last'.slot = i)
            => LET s == S(i)
                   s2 == sess'[i][1]
               IN  /\ IsSome(s2.cookie_value)
                   /\ id_from_cookie_value(s2.cookie_value[1]) = Ok(s2.id)
                   /\ s2.id # s.id
                   /\ s2.cookie_value # s.cookie_value
                   /\ s2.data = s.data
                   /\ s2.expiry = s.expiry]_vars

C14_Witness ==
    /\ last.op = "regenerate"
    /\ S(last.slot).data # EmptyData
    /\ IsSome(S(last.slot).expiry)
    /\ IsSome(S(last.slot).cookie_value)
    /\ \E c \in taken : c # S(last.slot).cookie_value[1]

\* ---- races between callers of the memory store
\* C15: when destroy_session or clear_store has removed the entry of a
\* session a caller loaded, the caller's store_session succeeds and puts an
\* entry with the session's data and expiry under the same id, and
\* load_session with the original cookie value returns that entry again.
C15_StoreRecreates ==
    [][/\ \A i \in Slots :
             ( /\ CallStep("MemoryStore::store_session") /\ last'.slot = i
               /\ track[i].origin = "persisted"
               /\ \E r \in issued : /\ r.backend = "memory" /\ r.id = S(i).id
                                     /\ r.status \in {"destroyed", "cleared"} )
               => /\ S(i).id \notin DOMAIN store
                  /\ last'.ret = Ok(None)
                  /\ S(i).id \in DOMAIN store'
                  /\ store'[S(i).id].data = S(i).data
                  /\ store'[S(i).id].expiry = S(i).expiry
       /\ \A r \in issued :
             ( /\ LoadOf("memory", r) /\ r.status = "recreated"
               /\ r.id \in DOMAIN store /\ ~Passed(store[r.id].expiry, now) )
               => (Found(last'.ret) /\ last'.ret[2][1] = store[r.id])]_vars

C15_Witness ==
    /\ last.op = "MemoryStore::load_session"
    /\ Found(last.ret)
    /\ \E r \in issued :
          /\ r.backend = "memory" /\ r.status = "recreated"
          /\ last.cookie = Some(r.cookie) /\ last.ret[2][1].id = r.id

\* ---- concurrent callers
\* caller p is kept waiting by caller q, who holds the lock p is to take
Waiting(p, q) == p # q /\ pc[p] \in Wanting /\ guard[WantedShard(p)] = q

\* callers p and q are both in store_session, for different ids
StoringApart(p, q) ==
    req[p].op = "store" /\ req[q].op = "store" /\ req[p].id # req[q].id

\* the call of caller p returns in this step
Returns(p) == pc[p] # "idle" /\ pc'[p] = "idle"

\* C16: load_session's expiry check and its eviction are one step for the
\* other callers: the entry a load_session removes is the expired one it
\* checked, never one a concurrent store_session put in its place, and a
\* load_session returns and leaves the map as the whole call, run alone at
\* the moment it returns, would (so do store_session and destroy_session).
C16_EntryAtomic ==
    [][\A p \in Procs :
          /\ (pc[p] = "evict" /\ Returns(p))
               => /\ Unwrap(req[p].id) \in DOMAIN store
                  /\ is_expired(store[Unwrap(req[p].id)], req[p].clock)
          /\ (req[p].op = "load" /\ Returns(p))
               => LET r == MemoryStore_load_session(store, Unwrap(req[p].cookie),
                               IF pc[p] = "check" THEN now ELSE req[p].clock)
                  IN  store' = r.store /\ res'[p] = r.ret
          /\ (req[p].op = "store" /\ Returns(p))
               => /\ store'[Unwrap(req[p].id)].expiry = Unwrap(req[p].session).expiry
                  /\ \A id \in DOMAIN store \ {Unwrap(req[p].id)} :
                        id \in DOMAIN store' /\ store'[id] = store[id]
          /\ (req[p].op = "destroy" /\ Returns(p))
               => /\ Unwrap(req[p].id) \notin DOMAIN store'
                  /\ \A id \in DOMAIN store \ {Unwrap(req[p].id)} :
                        id \in DOMAIN store' /\ store'[id] = store[id]]_vars

C16_Witness ==
    \E p, q \in Procs :
        /\ pc[p] = "evict" /\ guard[determine_shard(Unwrap(req[p].id))] = p
        /\ pc[q] = "insert" /\ req[q].id = req[p].id
        /\ is_expired(store[Unwrap(req[p].id)], now)
        /\ ~is_expired(Unwrap(req[q].session), now)

\* C17 as stated: of two concurrent store_session calls for different ids,
\* neither is ever kept waiting by the other.
C17_StoresNeverWait ==
    \A p, q \in Procs : StoringApart(p, q) => ~Waiting(p, q)

\* C17, amended: of two concurrent store_session calls for different ids,
\* one is kept waiting by the other only when both ids hash to the same
\* shard of the map, and only while the other is inside its insert into the
\* map, which ends with the other's next step.
C17_StoresWaitOnlyInShard ==
    /\ [](\A p, q \in Procs :
             (StoringApart(p, q) /\ Waiting(p, q))
               => /\ shard_of[Unwrap(req[p].id)] = shard_of[Unwrap(req[q].id)]
                  /\ pc[q] = "inserting")
    /\ [][\A q \in Procs :
             (pc[q] = "inserting" /\ pc'[q] # "inserting")
               => \A k \in Shards : guard'[k] # q]_vars

C17_Witness ==
    \E p, q \in Procs :
        /\ StoringApart(p, q) /\ Waiting(p, q)
        /\ shard_of[Unwrap(req[p].id)] = shard_of[Unwrap(req[q].id)]
        /\ pc[q] = "inserting"

LoadStep == CallStep("MemoryStore::load_session") \/ CallStep("CookieStore::load_session")

\* C19: load_session with a cookie value that is not base64 returns the
\* decode error on both stores, and the cookie store returns a
\* deserialization error for base64 text whose bytes are not a serialized
\* session; neither is Ok(None), and the memory store's map is as it was.
C19_MalformedIsError ==
    [][\A c \in Presented :
          (LoadStep /\ last'.cookie = Some(c))
            => /\ c \in Texts
                    => (last'.ret = Err("Base64") /\ store' = store /\ sess' = sess)
               /\ (CallStep("CookieStore::load_session") /\ c \notin Texts
                                                        /\ c[2][1] # "bincode")
                    => (last'.ret = Err("Bincode") /\ sess' = sess)]_vars

C19_Witness ==
    /\ last.op = "MemoryStore::load_session"
    /\ last.cookie[1] \in Texts
    /\ last.ret = Err("Base64")
    /\ store # EmptyMap
    /\ \E r \in issued : r.backend = "cookie"

\* C20: store_session of the cookie store returns Some(cookie value) for
\* every session; its destroy_session and clear_store return Ok and change
\* neither the session nor anything stored, and a cookie value issued
\* before them still loads its session until its expiry has passed.
C20_CookieStoreStateless ==
    [][/\ \A i \in Slots :
             (CallStep("CookieStore::store_session") /\ last'.slot = i)
               => (Found(last'.ret) /\ sess' = sess /\ store' = store)
       /\ (CallStep("CookieStore::destroy_session") \/ CallStep("CookieStore::clear_store"))
            => (last'.ret = Ok(<<>>) /\ sess' = sess /\ store' = store)
       /\ \A r \in issued :
             ( /\ LoadOf("cookie", r) /\ r.status \in {"destroyed", "cleared"}
               /\ ~Passed(r.expiry, now) )
               => (Found(last'.ret) /\ SameDurable(last'.ret[2][1], r))]_vars

C20_Witness ==
    /\ last.op = "CookieStore::load_session"
    /\ Found(last.ret)
    /\ IsSome(last.ret[2][1].expiry)
    /\ \E r \in issued :
          /\ r.backend = "cookie" /\ r.status = "destroyed"
          /\ last.cookie = Some(r.cookie) /\ SameDurable(last.ret[2][1], r)

\* C21: a session the cookie store loads has no pending cookie value,
\* data_changed() false and is_destroyed() false, whatever these three were
\* on the session that was stored: only id, expiry and data are in the cookie.
C21_OnlyDurableIsStored ==
    [][CallStep("CookieStore::load_session") /\ Found(last'.ret)
         => LET s == last'.ret[2][1]
            IN  /\ s.cookie_value = None
                /\ ~data_changed(s)
                /\ ~is_destroyed(s)]_vars

\* loaded beside the session it was stored from, which is still changed,
\* destroyed and has its cookie value pending
C21_Witness ==
    /\ last.op = "CookieStore::load_session"
    /\ Found(last.ret)
    /\ \E j \in Slots :
          /\ j # last.slot /\ Held(j)
          /\ SameDurable(S(j), last.ret[2][1])
          /\ data_changed(S(j)) /\ is_destroyed(S(j)) /\ IsSome(S(j).cookie_value)
    /\ S(last.slot).cookie_value = None
    /\ ~data_changed(S(last.slot)) /\ ~is_destroyed(S(last.slot))

\* C22: a session the memory store loads is never marked for destruction,
\* also when destroy() was called on the session before it was stored.
\* (The stored entry is session.clone(), and the clone carries the flag.)
C22_DestroyNotPersisted ==
    [][CallStep("MemoryStore::load_session") /\ Found(last'.ret)
         => ~is_destroyed(last'.ret[2][1])]_vars

\* C23: Session::new() gives a session with empty data, no expiry,
\* data_changed and destroy false, and a pending cookie value whose
\* id_from_cookie_value is the session's id; Session::from_parts(id, data,
\* expiry) gives a session with exactly that id, data and expiry, no pending
\* cookie value, data_changed and destroy false.
C23_InitialStates ==
    [][\A i \in Slots :
          /\ (CallStep("new") /\ last'.slot = i)
               => LET s == Unwrap(sess'[i])
                  IN  /\ s.data = EmptyData
                      /\ s.expiry = None
                      /\ ~data_changed(s) /\ ~is_destroyed(s)
                      /\ IsSome(s.cookie_value)
                      /\ id_from_cookie_value(Unwrap(s.cookie_value)) = Ok(s.id)
          /\ (CallStep("from_parts") /\ last'.slot = i)
               => LET s == Unwrap(sess'[i])
                      given == Unwrap(last'.val)
                  IN  /\ s.id = given[1] /\ s.data = given[2] /\ s.expiry = given[3]
                      /\ s.cookie_value = None
                      /\ ~data_changed(s) /\ ~is_destroyed(s)]_vars

\* a session made from parts with data and an expiry, beside a new one
C23_Witness ==
    /\ last.op = "from_parts"
    /\ S(last.slot).data # EmptyData
    /\ IsSome(S(last.slot).expiry)
    /\ S(last.slot).id = PartsId
    /\ \E j \in Slots :
          /\ j # last.slot /\ Held(j) /\ track[j] = Fresh
          /\ id_from_cookie_value(Unwrap(S(j).cookie_value)) = Ok(S(j).id)

RetainStep(p) == pc[p] = "retaining" /\ pc'[p] # "retaining"

\* C25 as stated: when cleanup returns, no entry that was expired when it
\* was scanned remains, and every entry that was not expired then is still
\* present and unchanged, also when store_session, load_session and
\* destroy_session of other callers run in between.
C25_CleanupExact ==
    [][\A p \in Procs :
          (RetainStep(p) /\ Returns(p))
            => \A e \in Scanned(p) :
                  IF e[3]
                  THEN ~(e[1] \in DOMAIN store' /\ store'[e[1]] = e[2])
                  ELSE e[1] \in DOMAIN store' /\ store'[e[1]] = e[2]]_vars

\* C25, amended: cleanup goes through the shards one after the other, and
\* on each shard it removes the entries that are expired at that moment and
\* only those; every other entry of the map is present and unchanged after
\* the step, whatever the other callers are in the middle of, and cleanup
\* returns when it has been through the last shard.
C25_CleanupEvictsExpired ==
    [][\A p \in Procs :
          RetainStep(p)
            => LET k == req[p].k
                   gone == {id \in DOMAIN store :
                              determine_shard(id) = k /\ Passed(store[id].expiry, now)}
               IN  /\ DOMAIN store' = DOMAIN store \ gone
                   /\ \A id \in DOMAIN store' : store'[id] = store[id]
                   /\ IF Returns(p) THEN k = Cardinality(Shards) /\ res'[p] = Ok(<<>>)
                      ELSE pc'[p] = "retain" /\ req'[p].k = k + 1]_vars

\* cleanup has been through the first shard: it dropped an expired entry and
\* kept one that was not expired
C25_Witness ==
    \E p \in Procs :
       /\ pc[p] = "retain" /\ req[p].op = "cleanup" /\ req[p].k = 2
       /\ \E e \in scanned[p] : e[3] /\ e[1] \notin DOMAIN store
       /\ \E e \in scanned[p] : ~e[3] /\ e[1] \in DOMAIN store /\ store[e[1]] = e[2]

\* this step leaves every entry under an id other than id as it was, and a
\* cookie value issued for it loads what it loaded before
OthersKept(id) ==
    \A j \in DOMAIN store \ {id} :
       /\ j \in DOMAIN store' /\ store'[j] = store[j]
       /\ \A r \in issued :
             (r.backend = "memory" /\ r.id = j)
               => /\ id_from_cookie_value(r.cookie) = Ok(j)
                  /\ MemoryStore_load_session(store', r.cookie, now).ret
                       = MemoryStore_load_session(store, r.cookie, now).ret

\* C26: store_session(s) of the memory store inserts or overwrites the entry
\* keyed by s.id and no other (count() grows by one when the id was absent
\* and stays when it was present), destroy_session(s) removes the entry
\* keyed by s.id and no other; every entry under another id is unchanged and
\* is loaded with its own cookie value as before.
C26_OneEntryTouched ==
    [][\A i \in Slots :
          /\ (CallStep("MemoryStore::store_session") /\ last'.slot = i)
               => /\ DOMAIN store' = DOMAIN store \cup {S(i).id}
                  /\ MemoryStore_count(store')
                       = MemoryStore_count(store)
                           + (IF S(i).id \in DOMAIN store THEN 0 ELSE 1)
                  /\ OthersKept(S(i).id)
          /\ (CallStep("MemoryStore::destroy_session") /\ last'.slot = i)
               => /\ DOMAIN store' = DOMAIN store \ {S(i).id}
                  /\ OthersKept(S(i).id)]_vars

\* one of two entries was destroyed, the other is loaded as before
C26_Witness ==
    /\ last.op = "MemoryStore::destroy_session"
    /\ S(last.slot).id \notin DOMAIN store
    /\ \E r \in issued :
          /\ r.backend = "memory" /\ r.status = "destroyed" /\ r.id = S(last.slot).id
    /\ \E r \in issued :
          /\ r.backend = "memory" /\ r.status = "live" /\ r.id \in DOMAIN store
          /\ Found(MemoryStore_load_session(store, r.cookie, now).ret)

\* the session of variable i came by regenerate() from a session stored
\* under the id old, and this step stores it for the first time
RotatedStore(i, old) ==
    /\ CallStep("MemoryStore::store_session") /\ last'.slot = i
    /\ <<old, S(i).id>> \in rotations
    /\ old \in DOMAIN store
    /\ track[i] = Fresh /\ S(i).id \notin DOMAIN store

\* this step loads with the cookie value of r, issued for an id that a
\* regenerate() replaced, and the regenerated session has been stored
LoadOfOld(r) ==
    /\ LoadOf("memory", r) /\ r.status = "live" /\ ~Passed(r.expiry, now)
    /\ r.id \in DOMAIN store
    /\ \E n \in DOMAIN store : <<r.id, n>> \in rotations

\* what C27 says of the new cookie value: store_session returns it, and
\* load_session with it returns the data the session had
RotatedIsStored ==
    /\ \A i \in Slots : \A old \in DOMAIN store :
          RotatedStore(i, old)
            => /\ Found(last'.ret)
               /\ id_from_cookie_value(last'.ret[2][1]) = Ok(S(i).id)
               /\ store'[S(i).id].data = S(i).data
    /\ \A r \in issued :
          ( /\ LoadOf("memory", r) /\ r.status = "live" /\ ~Passed(r.expiry, now)
            /\ \E old \in DOMAIN store : <<old, r.id>> \in rotations )
            => (Found(last'.ret) /\ SameDurable(last'.ret[2][1], r))

\* C27 as stated: after a stored session is regenerated and stored again,
\* store_session returns the new cookie value, load_session with it returns
\* the preserved data, and load_session with the cookie value issued before
\* returns Ok(None): the old entry is gone and count() has not grown.
C27_RotationInvalidatesOld ==
    [][/\ RotatedIsStored
       /\ \A i \in Slots : \A old \in DOMAIN store :
             RotatedStore(i, old)
               => /\ old \notin DOMAIN store'
                  /\ MemoryStore_count(store') = MemoryStore_count(store)
       /\ \A r \in issued : LoadOfOld(r) => last'.ret = Ok(None)]_vars

\* C27, amended: store_session returns the new cookie value and
\* load_session with it returns the preserved data; the entry under the old
\* id is left as it was, so count() grows by one and load_session with the
\* cookie value issued before still returns the session as it was stored
\* before regenerate().
C27_RotationKeepsOld ==
    [][/\ RotatedIsStored
       /\ \A i \in Slots : \A old \in DOMAIN store :
             RotatedStore(i, old)
               => /\ old \in DOMAIN store' /\ store'[old] = store[old]
                  /\ MemoryStore_count(store') = MemoryStore_count(store) + 1
       /\ \A r \in issued :
             LoadOfOld(r) => (Found(last'.ret) /\ SameDurable(last'.ret[2][1], r))]_vars

\* loaded, regenerated, stored, and the cookie value issued before still
\* loads the session stored before
C27_Witness ==
    /\ last.op = "MemoryStore::load_session"
    /\ Found(last.ret)
    /\ MemoryStore_count(store) = 2
    /\ \E r \in issued :
          /\ r.backend = "memory" /\ r.status = "live" /\ last.cookie = Some(r.cookie)
          /\ SameDurable(last.ret[2][1], r)
          /\ \E r2 \in issued :
                /\ r2.backend = "memory" /\ r2.id \in DOMAIN store
                /\ <<r.id, r2.id>> \in rotations
                /\ \E j \in Slots :
                      /\ j # last.slot /\ Held(j) /\ S(j).id = r2.id
                      /\ track[j] = Persisted

\* C28: in every reachable state each entry of the memory store is keyed by
\* the id of the session it holds, and that session has no pending cookie
\* value and data_changed false.
C28_EntryInvariant ==
    \A id \in DOMAIN store :
       /\ store[id].id = id
       /\ store[id].cookie_value = None
       /\ ~data_changed(store[id])

\* an entry beside the caller's session of the same id, which has been
\* changed since and has data_changed true
C28_Witness ==
    \E i \in Slots :
       /\ Held(i) /\ S(i).id \in DOMAIN store
       /\ data_changed(S(i))
       /\ store[S(i).id].data # EmptyData
       /\ S(i).data # store[S(i).id].data
       /\ \E r \in issued : r.backend = "memory" /\ r.id = S(i).id

\* the calls that change a session the caller holds
Mutators == {"insert_value", "remove", "set_expiry", "expire_in", "regenerate", "destroy"}

\* C29: what load_session of the memory store returns is a copy of its own:
\* insert_value, remove, set_expiry, expire_in, regenerate or destroy on a
\* loaded session, or on the caller's session after store_session, change
\* neither the map nor what load_session returns for any cookie value.
C29_LoadedIsACopy ==
    [][(ops' = ops + 1 /\ last'.op \in Mutators)
         => /\ store' = store
            /\ \A c \in Presented :
                  MemoryStore_load_session(store', c, now').ret
                    = MemoryStore_load_session(store, c, now).ret]_vars

\* a loaded session was changed, and its cookie value loads it as stored
C29_Witness ==
    /\ last.op \in Mutators
    /\ track[last.slot] = Persisted
    /\ \E r \in issued :
          /\ r.backend = "memory" /\ r.status = "live" /\ r.id \in DOMAIN store
          /\ \E j \in Slots : j # last.slot /\ Held(j) /\ S(j).id = r.id
          /\ LET ret == MemoryStore_load_session(store, r.cookie, now).ret
             IN  /\ Found(ret) /\ SameDurable(ret[2][1], r)
                 /\ ret[2][1].data # S(last.slot).data

\* C30: store_session of the memory store replaces the entry of the id by
\* the session passed, in full: when two callers load the same session,
\* change different keys and each store it, the entry is the session of the
\* store_session that came last, the other caller's change is not in it,
\* and both calls return Ok(None).
C30_LastWriterWins ==
    [][\A i \in Slots :
          (CallStep("MemoryStore::store_session") /\ last'.slot = i)
            => /\ store'[S(i).id]
                    = [S(i) EXCEPT !.cookie_value = None, !.data_changed = FALSE]
               /\ \A k \in Keys :
                     k \notin DOMAIN S(i).data => k \notin DOMAIN store'[S(i).id].data
               /\ track[i] = Persisted => last'.ret = Ok(None)]_vars

\* both callers have stored their change of the same session; the entry is
\* the session of the one that came last, without the other's key
C30_Witness ==
    /\ last.op = "MemoryStore::store_session"
    /\ last.ret = Ok(None)
    /\ \E j \in Slots :
          /\ j # last.slot /\ Held(j) /\ S(j).id = S(last.slot).id
          /\ track[j] = Persisted /\ ~data_changed(S(j))
          /\ S(j).data # EmptyData /\ S(last.slot).data # EmptyData
          /\ DOMAIN S(j).data \cap DOMAIN S(last.slot).data = {}
          /\ store[S(j).id] = S(last.slot)

\* the calls on a session that are not about its data
NonData ==
    {"destroy", "set_expiry", "expire_in", "regenerate", "set_cookie_value",
     "take_cookie_value"}

\* C31: destroy(), set_expiry(), expire_in(), regenerate(),
\* set_cookie_value() and take_cookie_value() leave data and data_changed as
\* they were, and destroy() changes nothing but the destroy flag; so a
\* session that reported data_changed() false before such a call reports it
\* false after it.
C31_NonDataMutators ==
    [][\A i \in Slots :
          /\ (ops' = ops + 1 /\ last'.op \in NonData /\ last'.slot = i)
               => /\ IsSome(sess'[i])
                  /\ Unwrap(sess'[i]).data = S(i).data
                  /\ data_changed(Unwrap(sess'[i])) = data_changed(S(i))
          /\ (CallStep("destroy") /\ last'.slot = i)
               => sess'[i] = Some([S(i) EXCEPT !.destroy = TRUE])]_vars

\* a session with data, whose expiry, id and destroy flag were changed since
\* it was made from parts, and which reports no change
C31_Witness ==
    /\ last.op = "destroy"
    /\ is_destroyed(S(last.slot))
    /\ S(last.slot).expiry = Some(0)
    /\ S(last.slot).id # PartsId
    /\ S(last.slot).data \in PartsData
    /\ ~data_changed(S(last.slot))

\* C32: store_session of the cookie store leaves the session passed to it as
\* it was: its id, data, expiry, data_changed flag and pending cookie value
\* are the same after the call (the flag is not reset and the pending cookie
\* value is not taken), and a second call right after on the same session
\* returns the same cookie value.
C32_CookieStoreKeepsSession ==
    [][\A i \in Slots :
          (CallStep("CookieStore::store_session") /\ last'.slot = i)
            => /\ IsSome(sess'[i])
               /\ LET s == Unwrap(sess'[i])
                  IN  /\ s.id = S(i).id /\ s.data = S(i).data /\ s.expiry = S(i).expiry
                      /\ data_changed(s) = data_changed(S(i))
                      /\ s.cookie_value = S(i).cookie_value
               /\ (last.op = "CookieStore::store_session" /\ last.slot = i)
                    => last'.ret = last.ret]_vars

\* stored in the cookie store, and the session is still changed and still
\* has the cookie value of new() pending
C32_Witness ==
    /\ last.op = "CookieStore::store_session"
    /\ Found(last.ret)
    /\ data_changed(S(last.slot))
    /\ S(last.slot).data # EmptyData
    /\ IsSome(S(last.slot).cookie_value)
    /\ id_from_cookie_value(Unwrap(S(last.slot).cookie_value)) = Ok(S(last.slot).id)
    /\ \E r \in issued :
          /\ r.backend = "cookie" /\ r.cookie = last.ret[2][1]
          /\ SameDurable(S(last.slot), r)

====
